---- MODULE Spec2Model ----
(***************************************************************************)
(* MatrixCare Looker Dashboard automation (scottwac/Power-Automate-        *)
(* Alternative): the duplicate-aware merge of google_sheets_service.py,    *)
(* the schedule gate and the scheduler loop of email_processor.py, and the *)
(* processing cycle that writes e-mail rows to the destination sheet.      *)
(*                                                                         *)
(* Strings are sequences of one-character strings, so that substring and   *)
(* lower-casing are computed as Python computes them.  A cell is a record  *)
(* [kind, text]: kind "str" is a Python str, kind "int" a Python int whose *)
(* decimal rendering is text.                                              *)
(***************************************************************************)
EXTENDS Integers, Sequences, FiniteSets, TLC

VARIABLES
    sheet,            \* rows stored in 'Sheet1' of the target spreadsheet
    data,             \* append_data_without_duplicates: the batch passed in
    unique_columns,   \* ... the key columns passed in (<<>>: None or [])
    pc,               \* position of the running operation
    existing_data,    \* ... what get_existing_data returned
    existing_keys,    \* ... the key set built from existing_data (line 457)
    new_data,         \* ... rows that survived filtering
    appendCalled,     \* append_data_to_sheet was invoked in this run
    fetchOutcome,     \* outcome of the values().get request of this run
    appendOutcome,    \* outcome of the values().append request of this run
    result,           \* what the operation returned ("Raise": it raised)
    sheetBefore,      \* the sheet when the running operation was called
    runs,             \* number of completed merge runs
    prev,             \* summary of the previous completed merge run
    clock,            \* the host's local wall clock, in minutes since
                      \* 2025-09-30 00:00 (the reference date), any sign
    sec,              \* seconds of the wall clock within the minute
    tuesdayCall,      \* last is_target_tuesday call: [called, at, ret]
    gateCall,         \* last should_check_emails call: [called, job, at, ret]
    tzOffset,         \* local time minus US/Eastern time, in minutes
    started,          \* the clock when run_scheduled was entered
    next_run,         \* the two scheduled jobs' next_run, as clock values
    cycleJob,         \* who invoked process_emails: 0 the initial check of
                      \* run_scheduled, 1 and 2 the two scheduled jobs
    gmail,            \* the mail source wired in: "GmailService", or the
                      \* "Mock" the repository's schedule test wires in
    target,           \* target_spreadsheet_id is configured
    inbox,            \* ids the mailbox holds for the subject filter
    message_ids,      \* process_emails: ids still to be processed
    found,            \* ... the ids the search of this invocation returned
    searches,         \* ... search_emails calls made by this invocation
    fetched,          \* ... get_message_with_attachments calls made by it:
                      \* [id, ok]
    appends,          \* ... append requests issued by it:
                      \* [id, sheet_name, values]
    active,           \* process_emails invocations that have not returned
    cycleOutcome,     \* how the last process_emails invocation ended:
                      \* "running", "returned" or "raised"
    csv_data,         \* process_csv_attachment: the bytes handed in
    max_rows,         \* CSVProcessor.max_rows
    decodeOutcome,    \* ... outcome of decoding csv_data
    csv_text,         \* ... the decoded, then cleaned text
    lines,            \* ... the lines still to be processed, each with its
                      \* position in the list split('\n') gave: [no, text]
    processed_rows,   \* ... the records collected so far
    origins,          \* ... for each record, the position of its line
    rowFailed,        \* ... positions of the lines whose processing raised
    rowCall,          \* last _process_csv_row call: [called, line, parsed,
                      \* raised, ret]; parsed: the csv reader gave fields
    csvResult,        \* what process_csv_attachment returned
    create_sheets,    \* EmailProcessor.create_sheets (CREATE_GOOGLE_SHEETS)
    tempUpload,       \* EmailProcessor.process_csv_attachment: outcome of
                      \* the upload of the original file
    attachAppend,     \* ... what append_data_to_sheet returned
    attachCreate,     \* ... outcome of create_and_populate_spreadsheet
    fallbacks,        \* ... number of _upload_csv_fallback invocations
    outputUpload,     \* ... outcome of the upload made by the fallback
    attachResult      \* ... how it ended: "returned" or "raised"

mergeVars == <<data, unique_columns, existing_data, existing_keys, new_data,
               appendCalled, fetchOutcome, appendOutcome, result,
               sheetBefore, runs, prev>>
gateVars  == <<tuesdayCall, gateCall>>
schedVars == <<tzOffset, started, next_run, cycleJob>>
cycleVars == <<gmail, target, inbox, message_ids, found, searches, fetched,
               appends, active, cycleOutcome>>

csvVars == <<csv_data, max_rows, decodeOutcome, csv_text, lines,
             processed_rows, origins, rowFailed, rowCall, csvResult>>

attachVars == <<create_sheets, tempUpload, attachAppend, attachCreate,
                fallbacks, outputUpload, attachResult>>

vars == <<sheet, pc, clock, sec, mergeVars, gateVars, schedVars, cycleVars,
          csvVars, attachVars>>

(***************************************************************************)
(* Bounds of the model.                                                    *)
(***************************************************************************)
MaxData == 2          \* longest batch handed to the merge
MaxRuns == 2          \* merge runs per behaviour
MaxWeeks == 4         \* the gate is asked about dates this many weeks
                      \* before and after the reference date
MaxRaceData == 1      \* longest batch of a merge that races another writer
MaxMinutes == 50      \* the scheduler loop is followed for this many
                      \* minutes after run_scheduled is entered

(***************************************************************************)
(* Strings and cells.                                                      *)
(***************************************************************************)
E      == <<>>                                   \* ''
c1     == <<"1">>
c2     == <<"2">>
cA     == <<"A">>
cB     == <<"B">>
LeadID == <<"L", "e", "a", "d", "I", "D">>
Name   == <<"N", "a", "m", "e">>
Sid    == <<"S", "i", "d">>

S(t) == [kind |-> "str", text |-> t]
I(t) == [kind |-> "int", text |-> t]

\* str(cell)
Str(cell) == cell.text

LowerChar(ch) ==
    CASE ch = "A" -> "a" [] ch = "B" -> "b" [] ch = "D" -> "d"
      [] ch = "I" -> "i" [] ch = "L" -> "l" [] ch = "N" -> "n"
      [] ch = "S" -> "s" [] OTHER -> ch

\* s.lower()
Lower(s) == [k \in DOMAIN s |-> LowerChar(s[k])]

\* sub in s
Contains(sub, s) ==
    \E k \in 1..(Len(s) - Len(sub) + 1) : SubSeq(s, k, k + Len(sub) - 1) = sub

IsPrefix(p, s) == Len(p) <= Len(s) /\ SubSeq(s, 1, Len(p)) = p

RECURSIVE SeqsUpTo(_, _)
SeqsUpTo(T, n) ==
    IF n = 0 THEN {<<>>}
    ELSE LET shorter == SeqsUpTo(T, n - 1)
         IN  shorter \cup {Append(q, t) : q \in shorter, t \in T}

(***************************************************************************)
(* google_sheets_service.py                                                *)
(***************************************************************************)
Outcomes == {"ok", "http", "exc"}   \* success, HttpError, any other exception

\* values().update(range='Sheet1!A1'), the request write_data_to_sheet
\* issues: the rows land at the top of the sheet, over what is there.
ValuesUpdate(rows, values, outcome) ==
    IF outcome = "ok"
    THEN values \o SubSeq(rows, Len(values) + 1, Len(rows))
    ELSE rows

\* values().append(range='Sheet1!A:Z', insertDataOption='INSERT_ROWS'):
\* the rows land after the last used row; a failed request writes nothing.
ValuesAppend(rows, values, outcome) ==
    IF outcome = "ok" THEN rows \o values ELSE rows

\* append_data_to_sheet: [ret, sheet]; only HttpError is caught.
AppendDataToSheet(rows, values, outcome) ==
    [ret   |-> CASE outcome = "ok"   -> "True"
                 [] outcome = "http" -> "False"
                 [] OTHER            -> "Raise",
     sheet |-> ValuesAppend(rows, values, outcome)]

\* values().get: every cell comes back as a string.
ValuesGet(rows) ==
    [r \in DOMAIN rows |-> [k \in DOMAIN rows[r] |-> S(Str(rows[r][k]))]]

\* get_existing_data: [ret, values]; an HttpError yields [].
GetExistingData(rows, outcome) ==
    CASE outcome = "ok"   -> [ret |-> "ok", values |-> ValuesGet(rows)]
      [] outcome = "http" -> [ret |-> "ok", values |-> <<>>]
      [] OTHER            -> [ret |-> "Raise", values |-> <<>>]

\* if not unique_columns: unique_columns = [0]
DefaultColumn == 0
EffectiveColumns(uc) == IF uc = <<>> THEN <<DefaultColumn>> ELSE uc

\* max(unique_columns)
MaxColumn(uc) ==
    CHOOSE m \in {uc[k] : k \in DOMAIN uc} : \A k \in DOMAIN uc : uc[k] <= m

\* tuple(str(row[i]) if i < len(row) else '' for i in unique_columns)
Key(row, uc) ==
    [k \in DOMAIN uc |-> IF uc[k] < Len(row) THEN Str(row[uc[k] + 1]) ELSE E]

\* the header test of line 448: every cell of the row is looked at, under
\* the filter len(row) > max(unique_columns)
LooksLikeHeader(row, uc) ==
    /\ Len(row) > MaxColumn(uc)
    /\ \E k \in DOMAIN row :
          \/ Contains(<<"l", "e", "a", "d">>, Lower(Str(row[k])))
          \/ Contains(<<"i", "d">>, Lower(Str(row[k])))

\* i == 0 and len(existing_data) > 1 and the header test: the row is skipped
SkippedAsHeader(existing, r, uc) ==
    r = 1 /\ Len(existing) > 1 /\ LooksLikeHeader(existing[r], uc)

\* if key and key != ('',)
KeptKey(key) == key # <<>> /\ key # <<E>>

\* the loop of lines 443-455
ExistingKeys(existing, uc) ==
    {Key(existing[r], uc) :
        r \in {q \in DOMAIN existing :
                  /\ ~SkippedAsHeader(existing, q, uc)
                  /\ Len(existing[q]) > MaxColumn(uc)
                  /\ KeptKey(Key(existing[q], uc))}}

\* the filter loop without line 465: kept keys do not join the set
FilterNewNoAdd(rows, seen, uc) ==
    SelectSeq(rows, LAMBDA row : Key(row, uc) \notin seen)

\* the filter loop with the test of line 463 inverted
FilterNewInverted(rows, seen, uc) ==
    SelectSeq(rows, LAMBDA row : Key(row, uc) \in seen)

\* the filter loop, the kept rows handed on last first
RECURSIVE FilterNewReversed(_, _, _)
FilterNewReversed(rows, seen, uc) ==
    IF rows = <<>> THEN <<>>
    ELSE LET key == Key(Head(rows), uc)
         IN  IF key \notin seen
             THEN FilterNewReversed(Tail(rows), seen \cup {key}, uc) \o <<Head(rows)>>
             ELSE FilterNewReversed(Tail(rows), seen, uc)

\* the loop of lines 460-465: a row is kept when its key is not in the set,
\* and its key joins the set
RECURSIVE FilterNew(_, _, _)
FilterNew(rows, seen, uc) ==
    IF rows = <<>> THEN <<>>
    ELSE LET key == Key(Head(rows), uc)
         IN  IF key \notin seen
             THEN <<Head(rows)>> \o FilterNew(Tail(rows), seen \cup {key}, uc)
             ELSE FilterNew(Tail(rows), seen, uc)

\* the key set is built again from the rows the sheet holds at the append
KeysRefetched(snapshot, rows, uc) == ExistingKeys(ValuesGet(rows), uc)

\* line 463 tests the keys against existing_keys, the set built from the
\* rows fetched in line 439, whatever the sheet holds by then
KeysAtAppend(snapshot, rows, uc) == snapshot

\* the append operation is called whatever survived
NothingToAppendNever(kept) == FALSE

\* lines 467-469: if not new_data: return True
NothingToAppend(kept) == kept = <<>>

\* a handler that, like the one of append_data_to_sheet, lets through what
\* is not an HttpError
CatchHttpOnly(ret) == ret

\* except Exception (lines 476-478): whatever is raised inside becomes False
CatchAll(ret) == IF ret = "Raise" THEN "False" ELSE ret

(***************************************************************************)
(* Inputs of the merge.                                                    *)
(***************************************************************************)
HeaderRow == <<S(LeadID), S(Name)>>
Row1A     == <<S(c1), S(cA)>>
Row2B     == <<S(c2), S(cB)>>

\* rows a caller may hand in (List[List[Any]]); every row ends with a
\* non-empty cell, so that what the sheet returns for it is the row itself
\* up to str()
DataRows ==
    {Row1A, Row2B, <<S(c1)>>, <<I(c1), S(cB)>>, <<S(E), S(cA)>>,
     <<S(Sid), S(cB)>>}

\* contents the destination may have when the program starts
InitialSheets ==
    {<<>>, <<HeaderRow>>, <<HeaderRow, Row1A>>, <<Row1A>>, <<Row1A, Row2B>>,
     <<HeaderRow, <<S(E), S(cA)>>, Row2B>>, <<<<S(Sid), S(cB)>>, Row1A>>,
     <<<<S(cA), S(Name)>>, <<S(c1)>>>>,
     <<HeaderRow, <<S(E), S(E), S(c1)>>>>}

ColumnLists == {<<>>, <<0>>, <<1>>, <<0, 1>>}

NoRun == [ok |-> FALSE, after |-> <<>>]

NoCall == [called |-> FALSE, job |-> 0, at |-> 0, ret |-> FALSE]

GateIdle ==
    /\ tuesdayCall = NoCall
    /\ gateCall = NoCall

SchedIdle ==
    /\ tzOffset = 0
    /\ started = 0
    /\ next_run = <<0, 0>>
    /\ cycleJob = 0

CycleIdle ==
    /\ gmail = "GmailService"
    /\ target = FALSE
    /\ inbox = <<>>
    /\ message_ids = <<>>
    /\ found = <<>>
    /\ searches = 0
    /\ fetched = <<>>
    /\ appends = <<>>
    /\ active = 0
    /\ cycleOutcome = "none"

\* no record: what a call that raised leaves in place of its value
NoRecord == <<>>

NoRowCall ==
    [called |-> FALSE, line |-> <<>>, parsed |-> FALSE, raised |-> FALSE,
     ret |-> NoRecord]

NoResult == [type |-> "none", value |-> <<>>]

CsvIdle ==
    /\ csv_data = <<>>
    /\ max_rows = 0
    /\ decodeOutcome = "none"
    /\ csv_text = <<>>
    /\ lines = <<>>
    /\ processed_rows = <<>>
    /\ origins = <<>>
    /\ rowFailed = {}
    /\ rowCall = NoRowCall
    /\ csvResult = NoResult

AttachIdle ==
    /\ create_sheets = FALSE
    /\ tempUpload = "none"
    /\ attachAppend = "none"
    /\ attachCreate = "none"
    /\ fallbacks = 0
    /\ outputUpload = "none"
    /\ attachResult = "none"

MergeIdle ==
    /\ data = <<>>
    /\ unique_columns = <<>>
    /\ existing_data = <<>>
    /\ existing_keys = {}
    /\ new_data = <<>>
    /\ appendCalled = FALSE
    /\ fetchOutcome = "none"
    /\ appendOutcome = "none"
    /\ result = "none"
    /\ sheetBefore = <<>>
    /\ runs = 0
    /\ prev = NoRun

InitMerge ==
    /\ AttachIdle
    /\ CsvIdle
    /\ GateIdle
    /\ SchedIdle
    /\ CycleIdle
    /\ clock = 0
    /\ sec = 0
    /\ sheet \in InitialSheets
    /\ data \in SeqsUpTo(DataRows, MaxData)
    /\ unique_columns \in ColumnLists
    /\ pc = "idle"
    /\ existing_data = <<>>
    /\ existing_keys = {}
    /\ new_data = <<>>
    /\ appendCalled = FALSE
    /\ fetchOutcome = "none"
    /\ appendOutcome = "none"
    /\ result = "none"
    /\ sheetBefore = <<>>
    /\ runs = 0
    /\ prev = NoRun

\* the caller invokes append_data_without_duplicates(data, unique_columns)
MergeCall ==
    /\ pc = "idle"
    /\ runs < MaxRuns
    /\ pc' = "fetch"
    /\ sheetBefore' = sheet
    /\ existing_data' = <<>>
    /\ existing_keys' = {}
    /\ new_data' = <<>>
    /\ appendCalled' = FALSE
    /\ fetchOutcome' = "none"
    /\ appendOutcome' = "none"
    /\ result' = "none"
    /\ UNCHANGED <<sheet, data, unique_columns, runs, prev>>
    /\ UNCHANGED <<clock, sec, gateVars, schedVars, cycleVars>>
    /\ UNCHANGED <<csvVars, attachVars>>

\* lines 436-457: the fetch and the key set
MergeFetch ==
    /\ pc = "fetch"
    /\ \E outcome \in Outcomes :
          LET got == GetExistingData(sheet, outcome)
              uc  == EffectiveColumns(unique_columns)
          IN  /\ fetchOutcome' = outcome
              /\ existing_data' = got.values
              /\ IF got.ret = "Raise"
                 THEN /\ result' = CatchAll("Raise")
                      /\ pc' = "done"
                      /\ existing_keys' = {}
                 ELSE /\ result' = "none"
                      /\ pc' = "filter"
                      /\ existing_keys' = ExistingKeys(got.values, uc)
    /\ UNCHANGED <<sheet, data, unique_columns, new_data, appendCalled,
                   appendOutcome, sheetBefore, runs, prev>>
    /\ UNCHANGED <<clock, sec, gateVars, schedVars, cycleVars>>
    /\ UNCHANGED <<csvVars, attachVars>>

\* lines 459-474: the filter and the append
MergeAppend ==
    /\ pc = "filter"
    /\ LET uc   == EffectiveColumns(unique_columns)
           kept == FilterNew(data, KeysAtAppend(existing_keys, sheet, uc), uc)
       IN  /\ new_data' = kept
           /\ IF NothingToAppend(kept)
              THEN /\ result' = "True"
                   /\ appendCalled' = FALSE
                   /\ appendOutcome' = "none"
                   /\ sheet' = sheet
              ELSE \E outcome \in Outcomes :
                      LET done == AppendDataToSheet(sheet, kept, outcome)
                      IN  /\ result' = CatchAll(done.ret)
                          /\ appendCalled' = TRUE
                          /\ appendOutcome' = outcome
                          /\ sheet' = done.sheet
    /\ pc' = "done"
    /\ UNCHANGED <<data, unique_columns, existing_data, existing_keys,
                   fetchOutcome, sheetBefore, runs, prev>>
    /\ UNCHANGED <<clock, sec, gateVars, schedVars, cycleVars>>
    /\ UNCHANGED <<csvVars, attachVars>>

\* the call returns to its caller
MergeReturn ==
    /\ pc = "done"
    /\ pc' = "idle"
    /\ runs' = runs + 1
    /\ prev' = [ok |-> (result = "True" /\ fetchOutcome = "ok"), after |-> sheet]
    /\ UNCHANGED <<sheet, data, unique_columns, existing_data, existing_keys,
                   new_data, appendCalled, fetchOutcome, appendOutcome,
                   result, sheetBefore>>
    /\ UNCHANGED <<clock, sec, gateVars, schedVars, cycleVars>>
    /\ UNCHANGED <<csvVars, attachVars>>

NextMerge == MergeCall \/ MergeFetch \/ MergeAppend \/ MergeReturn

SpecMerge == InitMerge /\ [][NextMerge]_vars

\* rows somebody else may append to the destination
ExternalRows == {Row1A, <<S(E), S(cA)>>}

\* another writer of the spreadsheet appends a row after the merge has
\* fetched the existing rows (line 439) and before it appends (line 472)
ExternalWrite ==
    /\ pc = "filter"
    /\ sheet = sheetBefore
    /\ \E row \in ExternalRows : sheet' = Append(sheet, row)
    /\ UNCHANGED <<pc, clock, sec, mergeVars, gateVars, schedVars, cycleVars,
                   csvVars, attachVars>>

NextRace ==
    MergeCall \/ MergeFetch \/ ExternalWrite \/ MergeAppend \/ MergeReturn

\* the race needs one batch row with the key of the foreign row
InitRace == InitMerge /\ Len(data) <= MaxRaceData

SpecRace == InitRace /\ [][NextRace]_vars

(***************************************************************************)
(* email_processor.py: the schedule gate.  A date is a number of days      *)
(* since the reference date; a clock value is a number of minutes since    *)
(* the reference date's midnight, in the host's local time.                *)
(***************************************************************************)
ReferenceDate     == 0        \* self.reference_tuesday.date(): 2025-09-30
ReferenceWeekday  == 1        \* ... which is a Tuesday
TuesdayWeekday    == 1
FirstCheckHour    == 11
FirstCheckMinute  == 20
SecondCheckHour   == 12
SecondCheckMinute == 0

MinutesPerDay == 24 * 60

\* datetime.now().date(), .time().hour, .time().minute
DateOf(t)   == t \div MinutesPerDay
HourOf(t)   == (t % MinutesPerDay) \div 60
MinuteOf(t) == t % 60

\* date.weekday(): Monday is 0
Weekday(d) == (ReferenceWeekday + (d - ReferenceDate)) % 7

\* is_target_tuesday without the weekday test of lines 121-122
IsTargetTuesdayNoWeekday(today) == ((today - ReferenceDate) \div 7) % 2 = 0

\* is_target_tuesday, for today = datetime.now().date()
IsTargetTuesday(today) ==
    IF Weekday(today) # TuesdayWeekday
    THEN FALSE
    ELSE LET days_diff  == today - ReferenceDate
             weeks_diff == days_diff \div 7
         IN  weeks_diff % 2 = 0

\* should_check_emails with the minute test of line 150 left out
ShouldCheckEmailsHourOnly(t1, t2) ==
    IF ~IsTargetTuesday(DateOf(t1))
    THEN FALSE
    ELSE \/ HourOf(t2) = FirstCheckHour /\ MinuteOf(t2) = FirstCheckMinute
         \/ HourOf(t2) = SecondCheckHour

\* should_check_emails: is_target_tuesday reads the clock (t1), then
\* line 143 reads it again (t2)
ShouldCheckEmails(t1, t2) ==
    IF ~IsTargetTuesday(DateOf(t1))
    THEN FALSE
    ELSE IF HourOf(t2) = FirstCheckHour /\ MinuteOf(t2) = FirstCheckMinute
         THEN TRUE
         ELSE IF HourOf(t2) = SecondCheckHour /\ MinuteOf(t2) = SecondCheckMinute
              THEN TRUE
              ELSE FALSE

\* the clock may pass a minute boundary between two reads of one call
SecondRead(t) == {t, t + 1}

\* minutes of the day the gate is asked about
GateMinutes ==
    {0, 10 * 60 + 30, 11 * 60, 11 * 60 + 19, 11 * 60 + 20, 11 * 60 + 21,
     11 * 60 + 59, 12 * 60, 12 * 60 + 1, 12 * 60 + 20, 23 * 60 + 59}

GateTimes ==
    {d * MinutesPerDay + m : d \in (-7 * MaxWeeks)..(7 * MaxWeeks), m \in GateMinutes}

InitGate ==
    /\ AttachIdle
    /\ CsvIdle
    /\ MergeIdle
    /\ SchedIdle
    /\ CycleIdle
    /\ GateIdle
    /\ sheet = <<>>
    /\ pc = "idle"
    /\ sec = 0
    /\ clock \in GateTimes

CallIsTargetTuesday ==
    /\ tuesdayCall' = [called |-> TRUE, job |-> 0, at |-> DateOf(clock),
                       ret |-> IsTargetTuesday(DateOf(clock))]
    /\ UNCHANGED <<sheet, pc, clock, sec, mergeVars, gateCall, schedVars, cycleVars>>
    /\ UNCHANGED <<csvVars, attachVars>>

CallShouldCheckEmails ==
    /\ \E t2 \in SecondRead(clock) :
          gateCall' = [called |-> TRUE, job |-> 0, at |-> t2,
                       ret |-> ShouldCheckEmails(clock, t2)]
    /\ UNCHANGED <<sheet, pc, clock, sec, mergeVars, tuesdayCall, schedVars, cycleVars>>
    /\ UNCHANGED <<csvVars, attachVars>>

NextGate == CallIsTargetTuesday \/ CallShouldCheckEmails

SpecGate == InitGate /\ [][NextGate]_vars

(***************************************************************************)
(* email_processor.py: run_scheduled and the processing cycle.             *)
(***************************************************************************)
BodyLimit == 1000

Whitespace == {" ", "\t", "\n"}

RECURSIVE LStrip(_)
LStrip(s) == IF s # <<>> /\ Head(s) \in Whitespace THEN LStrip(Tail(s)) ELSE s

RECURSIVE RStrip(_)
RStrip(s) ==
    IF s # <<>> /\ s[Len(s)] \in Whitespace
    THEN RStrip(SubSeq(s, 1, Len(s) - 1))
    ELSE s

\* s.strip()
Strip(s) == RStrip(LStrip(s))

\* the body is written whole
TruncateNone(s) == s

\* email_content[:1000]
Truncate(s) == SubSeq(s, 1, IF Len(s) < BodyLimit THEN Len(s) ELSE BodyLimit)

Digit(n) == <<"0", "1", "2", "3", "4", "5", "6", "7", "8", "9">>[n + 1]
TwoDigits(n) == <<Digit(n \div 10), Digit(n % 10)>>

\* date.strftime('%Y-%m-%d') for the dates 2025-09-30 .. 2025-10-31
DateText(d) ==
    IF d = ReferenceDate
    THEN <<"2", "0", "2", "5", "-", "0", "9", "-", "3", "0">>
    ELSE <<"2", "0", "2", "5", "-", "1", "0", "-">> \o TwoDigits(d - ReferenceDate)

\* datetime.now().strftime('%Y-%m-%d %H:%M:%S')
Strftime(t, seconds) ==
    DateText(DateOf(t)) \o <<" ">> \o TwoDigits(HourOf(t)) \o <<":">>
        \o TwoDigits(MinuteOf(t)) \o <<":">> \o TwoDigits(seconds)

Processed == <<"P", "r", "o", "c", "e", "s", "s", "e", "d">>

\* sheet_name='Sheet1' (line 250)
SheetName == <<"S", "h", "e", "e", "t", "1">>

\* a body one character longer than what line 241 keeps
LongBody == [k \in 1..(BodyLimit + 1) |-> IF k = 1 THEN "y" ELSE "z"]

\* the messages of the mailbox that match the subject filter
MessageIds == {"m1", "m2", "m3"}
Mailbox ==
    [id \in MessageIds |->
        CASE id = "m1" -> [from |-> <<"a">>, subject |-> <<"M">>, body |-> <<"x">>]
          [] id = "m2" -> [from |-> <<"b">>, subject |-> <<"M">>, body |-> LongBody]
          [] OTHER     -> [from |-> <<"a">>, subject |-> <<"M">>, body |-> <<" ", "\n">>]]

\* GmailService.get_message_with_attachments: the dictionary built in lines
\* 166-175 has the keys id, subject, from, date and attachments
GmailMessage(id) ==
    [hasBody |-> FALSE, from |-> Mailbox[id].from,
     subject |-> Mailbox[id].subject, body |-> E]

\* the message the mail source of test_matrixcare_schedule.py returns:
\* from, subject and body
MockMessage(id) ==
    [hasBody |-> TRUE, from |-> Mailbox[id].from,
     subject |-> Mailbox[id].subject, body |-> Mailbox[id].body]

\* gmail_service.get_message_with_attachments(message_id)
GetMessage(source, id) ==
    IF source = "GmailService" THEN GmailMessage(id) ELSE MockMessage(id)

\* message.get('body', '')
GetBody(message) == IF message.hasBody THEN message.body ELSE E

\* data_row of lines 237-243
DataRow(message, t, seconds) ==
    <<S(Strftime(t, seconds)), S(message.from), S(message.subject),
      S(Truncate(GetBody(message))), S(Processed)>>

\* est.replace(hour=h, minute=m).astimezone().strftime("%H:%M"), as a minute
\* of the local day
EstToLocal(h, m, offset) == (h * 60 + m + offset) % MinutesPerDay

JobTime(job, offset) ==
    IF job = 1 THEN EstToLocal(FirstCheckHour, FirstCheckMinute, offset)
    ELSE EstToLocal(SecondCheckHour, SecondCheckMinute, offset)

\* schedule.every().tuesday.at("HH:MM"): the first local Tuesday HH:MM:00
\* that lies after the moment t
NextTuesdayAt(t, hm) ==
    LET cand == {d * MinutesPerDay + hm : d \in DateOf(t)..(DateOf(t) + 7)}
        ok   == {T \in cand : T > t /\ Weekday(DateOf(T)) = TuesdayWeekday}
    IN  CHOOSE T \in ok : \A U \in ok : T <= U

\* jobs run_pending would run now: those whose next_run has come
Due(t, nr) == {j \in {1, 2} : t >= nr[j]}

\* time.sleep(60) and the loop body take 60 seconds or a little more: the
\* minute read at the next poll is the next one or the one after it
SleepMinutes == {1, 2}

Seconds == {0, 30}

\* local time minus US/Eastern time: an Eastern, a Pacific and an Indian host
LocalOffsets == {0, -180, 570}

SchedStarts ==
    {d * MinutesPerDay + m :
        d \in {0, 7, 14},
        m \in {8 * 60 + 15, 11 * 60 + 15, 11 * 60 + 20, 20 * 60 + 45}}

InitialInboxes == {<<>>, <<"m1">>, <<"m1", "m2">>, <<"m3", "m1">>}

Init ==
    /\ AttachIdle
    /\ CsvIdle
    /\ MergeIdle
    /\ GateIdle
    /\ sheet \in {<<>>, <<HeaderRow>>}
    /\ pc = "start"
    /\ clock \in SchedStarts
    /\ sec = 0
    /\ tzOffset \in LocalOffsets
    /\ started = clock
    /\ next_run = <<0, 0>>
    /\ cycleJob = 0
    /\ gmail \in {"GmailService", "Mock"}
    /\ target \in BOOLEAN
    /\ inbox \in InitialInboxes
    /\ message_ids = <<>>
    /\ found = <<>>
    /\ searches = 0
    /\ fetched = <<>>
    /\ appends = <<>>
    /\ active = 0
    /\ cycleOutcome = "none"

\* run_scheduled, lines 421-443: the two jobs are scheduled and the initial
\* check is called
RunScheduled ==
    /\ pc = "start"
    /\ next_run' = <<NextTuesdayAt(clock, JobTime(1, tzOffset)),
                     NextTuesdayAt(clock, JobTime(2, tzOffset))>>
    /\ cycleJob' = 0
    /\ pc' = "call"
    /\ UNCHANGED <<sheet, clock, sec, mergeVars, gateVars, tzOffset, started,
                   cycleVars>>
    /\ UNCHANGED <<csvVars, attachVars>>

\* schedule.run_pending(): a job that is due is run and scheduled again
RunPending ==
    /\ pc = "pending"
    /\ Due(clock, next_run) # {}
    /\ LET j == CHOOSE j \in Due(clock, next_run) :
                    \A k \in Due(clock, next_run) : next_run[j] <= next_run[k]
       IN  /\ cycleJob' = j
           /\ next_run' = [next_run EXCEPT ![j] = NextTuesdayAt(clock, JobTime(j, tzOffset))]
    /\ pc' = "call"
    /\ UNCHANGED <<sheet, clock, sec, mergeVars, gateVars, tzOffset, started,
                   cycleVars>>
    /\ UNCHANGED <<csvVars, attachVars>>

\* time.sleep(60), when run_pending has run every job that was due
Sleep ==
    /\ pc = "pending"
    /\ Due(clock, next_run) = {}
    /\ clock - started < MaxMinutes
    /\ \E m \in SleepMinutes : clock' = clock + m
    /\ sec' = 0
    /\ UNCHANGED <<sheet, pc, mergeVars, gateVars, schedVars, cycleVars>>
    /\ UNCHANGED <<csvVars, attachVars>>

\* a cycle handed to a thread of its own: the caller goes on while the
\* invocation is still in progress
Detached(n) == n

\* process_emails returns to run_pending, or to run_scheduled (lines 161,
\* 176 and 184-187): the invocation is over
Returned(n) == n - 1

\* what is raised while one message is processed reaches the loop of
\* process_emails
SingleEmailNoCatch(raised) == raised

\* lines 210-211 and 261-262: except Exception, logged; nothing raised while
\* one message is processed reaches the loop of process_emails
SingleEmailCatch(raised) == FALSE

\* lines 186-187: except Exception, logged; process_emails returns
CycleCatch(raised) == "returned"

\* the gate is not consulted: the cycle always goes on to the search
PastGateAlways(open) == TRUE

\* lines 160-161: the cycle goes on to the search when the gate is open
PastGate(open) == open

\* how long the fetch and the append of one message take, in minutes
CycleMinutes == {0, 45}

\* process_emails, lines 158-178: the gate, then the search
ProcessEmails ==
    /\ pc = "call"
    /\ \E t2 \in SecondRead(clock), outcome \in Outcomes :
          LET open == ShouldCheckEmails(clock, t2)
              go   == PastGate(open)
              ids  == IF outcome = "ok" THEN inbox ELSE <<>>
          IN  /\ gateCall' = [called |-> TRUE, job |-> cycleJob, at |-> t2,
                              ret |-> open]
              /\ clock' = t2
              /\ sec' = IF t2 = clock THEN sec ELSE 0
              /\ searches' = IF go THEN 1 ELSE 0
              /\ found' = IF go THEN ids ELSE <<>>
              /\ message_ids' = IF go THEN ids ELSE <<>>
              /\ pc' = IF go /\ ids # <<>> THEN "emails" ELSE "pending"
              /\ active' = IF go /\ ids # <<>> THEN active + 1
                            ELSE Returned(active + 1)
              /\ cycleOutcome' = IF go /\ ids # <<>> THEN "running"
                                  ELSE CycleCatch(go /\ outcome = "exc")
    /\ fetched' = <<>>
    /\ appends' = <<>>
    /\ UNCHANGED <<sheet, mergeVars, tuesdayCall, schedVars, gmail, target, inbox>>
    /\ UNCHANGED <<csvVars, attachVars>>

\* one turn of the loop of lines 181-182: process_single_email and
\* process_matrixcare_email for the next message id
ProcessSingleEmail ==
    /\ pc = "emails"
    /\ message_ids # <<>>
    /\ \E got \in Outcomes, took \in CycleMinutes, seconds \in Seconds,
          outcome \in Outcomes :
          LET id      == Head(message_ids)
              message == GetMessage(gmail, id)
              row     == DataRow(message, clock + took, seconds)
              filled  == got = "ok" /\ Strip(GetBody(message)) # E
              written == filled /\ target
              escaped == SingleEmailCatch(\/ got = "exc"
                                          \/ written /\ outcome = "exc")
              rest    == IF escaped THEN <<>> ELSE Tail(message_ids)
          IN  /\ took = 0 => seconds >= sec
              /\ fetched' = Append(fetched, [id |-> id, ok |-> got = "ok"])
              /\ appends' = IF written
                            THEN Append(appends, [id |-> id,
                                                  sheet_name |-> SheetName,
                                                  values |-> <<row>>])
                            ELSE appends
              /\ sheet' = IF written
                          THEN AppendDataToSheet(sheet, <<row>>, outcome).sheet
                          ELSE sheet
              /\ clock' = clock + took
              /\ sec' = IF filled \/ took > 0 THEN seconds ELSE sec
              /\ message_ids' = rest
              /\ pc' = IF rest = <<>> THEN "pending" ELSE "emails"
              /\ active' = IF rest = <<>> THEN Returned(active) ELSE active
              /\ cycleOutcome' = IF rest = <<>> THEN CycleCatch(escaped)
                                  ELSE cycleOutcome
    /\ UNCHANGED <<mergeVars, gateVars, schedVars, gmail, target, inbox, found,
                   searches>>
    /\ UNCHANGED <<csvVars, attachVars>>

Next == RunScheduled \/ RunPending \/ Sleep \/ ProcessEmails \/ ProcessSingleEmail

Spec == Init /\ [][Next]_vars

(***************************************************************************)
(* csv_processor.py: process_csv_attachment and _process_csv_row.  Bytes   *)
(* and characters are one-element strings; "0xFF" is a byte that is not    *)
(* valid UTF-8 and "0x00" the NUL byte and character.                      *)
(***************************************************************************)
Quote == "\""
Comma == ","
LF    == "\n"
CR    == "\r"
NUL   == "0x00"
BadByte == "0xFF"

\* bytes.decode('utf-8', errors='ignore'): a byte that is not valid UTF-8
\* is dropped
Decode(bytes) == SelectSeq(bytes, LAMBDA b : b # BadByte)

\* str.replace(old, '') for a one-character old
Remove(s, ch) == SelectSeq(s, LAMBDA x : x # ch)

\* csv_text.replace('""', '"'): non-overlapping pairs, left to right
RECURSIVE CollapseQuotes(_)
CollapseQuotes(s) ==
    IF Len(s) < 2 THEN s
    ELSE IF s[1] = Quote /\ s[2] = Quote
         THEN <<Quote>> \o CollapseQuotes(SubSeq(s, 3, Len(s)))
         ELSE <<s[1]>> \o CollapseQuotes(Tail(s))

\* lines 37-38
Clean(text) == CollapseQuotes(Remove(text, CR))

\* csv_text.split('\n'), each line with its position in the list
RECURSIVE SplitFrom(_, _, _)
SplitFrom(s, cur, no) ==
    IF s = <<>> THEN <<[no |-> no, text |-> cur]>>
    ELSE IF Head(s) = LF
         THEN <<[no |-> no, text |-> cur]>> \o SplitFrom(Tail(s), <<>>, no + 1)
         ELSE SplitFrom(Tail(s), Append(cur, Head(s)), no)

Split(text) == SplitFrom(text, <<>>, 1)

\* the first line is kept when it is the only one
SkipHeaderNever(ls) == ls

\* lines 42-43: if len(lines) > 1: lines = lines[1:]
SkipHeader(ls) == IF Len(ls) > 1 THEN Tail(ls) ELSE ls

\* lines[:self.max_rows]
Take(ls, n) == SubSeq(ls, 1, IF Len(ls) < n THEN Len(ls) ELSE n)

\* line 49: [line.strip() for line in lines if line.strip()]
FilterBlank(ls) ==
    LET stripped == [k \in DOMAIN ls |-> [no |-> ls[k].no, text |-> Strip(ls[k].text)]]
    IN  SelectSeq(stripped, LAMBDA l : l.text # E)

\* blank lines are removed before the cap is applied
FilterThenCap(ls, n) == Take(FilterBlank(ls), n)

\* lines 46-49: the cap, then the blank lines
CapThenFilter(ls, n) == FilterBlank(Take(ls, n))

\* a row that raised ends the loop
AbortOnFailure(raised, rest) == IF raised THEN <<>> ELSE rest

\* lines 60-62: except Exception ... continue; the loop goes on with the
\* lines that are left
Continue(raised, rest) == rest

\* the field values as the reader gave them
LeadDataUnstripped(fields) ==
    [LeadCreationDate |-> fields[1],
     InquiryDate      |-> fields[2],
     CommunityName    |-> fields[3],
     Classification   |-> fields[4],
     TotalLeads       |-> fields[5],
     SubSourceName    |-> fields[6],
     SourceName       |-> fields[7]]

\* csv.reader (excel dialect, not strict) on a text of one line: the fields
RECURSIVE CsvScan(_, _, _, _)
CsvScan(rest, state, field, fields) ==
    IF rest = <<>>
    THEN Append(fields, field)
    ELSE LET c == Head(rest)
             r == Tail(rest)
         IN  CASE state = "start_field" ->
                    IF c = Quote THEN CsvScan(r, "in_quoted", <<>>, fields)
                    ELSE IF c = Comma
                         THEN CsvScan(r, "start_field", <<>>, Append(fields, <<>>))
                         ELSE CsvScan(r, "in_field", <<c>>, fields)
               [] state = "in_field" ->
                    IF c = Comma
                    THEN CsvScan(r, "start_field", <<>>, Append(fields, field))
                    ELSE CsvScan(r, "in_field", Append(field, c), fields)
               [] state = "in_quoted" ->
                    IF c = Quote THEN CsvScan(r, "quote_in_quoted", field, fields)
                    ELSE CsvScan(r, "in_quoted", Append(field, c), fields)
               [] OTHER ->
                    IF c = Quote
                    THEN CsvScan(r, "in_quoted", Append(field, c), fields)
                    ELSE IF c = Comma
                         THEN CsvScan(r, "start_field", <<>>, Append(fields, field))
                         ELSE CsvScan(r, "in_field", Append(field, c), fields)

CsvReader(line) == CsvScan(line, "start_field", <<>>, <<>>)

\* next(csv_reader) raises for a text without a line (StopIteration) and,
\* with the csv module of Python before 3.11, for a line with a NUL
ReaderOutcomes(line) ==
    IF line = <<>> THEN {"exc"}
    ELSE IF \E k \in DOMAIN line : line[k] = NUL THEN {"ok", "exc"}
    ELSE {"ok"}

LeadFields == 7

\* the field list is left as the reader gave it
PadNone(fields) == fields

\* lines 90-91: while len(fields) < 7: fields.append('')
Pad(fields) ==
    IF Len(fields) < LeadFields
    THEN fields \o [k \in 1..(LeadFields - Len(fields)) |-> E]
    ELSE fields

\* lines 94-102
LeadData(fields) ==
    [LeadCreationDate |-> Strip(fields[1]),
     InquiryDate      |-> Strip(fields[2]),
     CommunityName    |-> Strip(fields[3]),
     Classification   |-> Strip(fields[4]),
     TotalLeads       |-> Strip(fields[5]),
     SubSourceName    |-> Strip(fields[6]),
     SourceName       |-> Strip(fields[7])]

\* _process_csv_row: [raised, ret]; whatever is raised inside is raised
\* again (lines 106-108), an index past the field list included
ProcessCsvRow(line, outcome) ==
    IF outcome # "ok" THEN [raised |-> TRUE, ret |-> NoRecord]
    ELSE LET fields == Pad(CsvReader(line))
         IN  IF Len(fields) < LeadFields
             THEN [raised |-> TRUE, ret |-> NoRecord]
             ELSE [raised |-> FALSE, ret |-> LeadData(fields)]

\* if row_data: a dict with keys is true
Truthy(row_data) == DOMAIN row_data # {}

\* the failure leaves process_csv_attachment
CsvNoCatch(failed, rows) ==
    IF failed THEN [type |-> "raise", value |-> <<>>]
    ELSE [type |-> "list", value |-> rows]

\* lines 65-69: the list of records, [] when anything was raised outside
\* the row loop's own handler
CsvCatch(failed, rows) ==
    IF failed THEN [type |-> "list", value |-> <<>>]
    ELSE [type |-> "list", value |-> rows]

(***************************************************************************)
(* Inputs of the CSV processor.                                            *)
(***************************************************************************)
MaxBytes == 3         \* longest enumerated attachment, in bytes

Bytes == {"1", " ", Comma, Quote, LF, CR, NUL, BadByte}

Example14     == <<"H", "1", Comma, "H", "2", LF, "1", Comma, "2", Comma, "3", Comma, "4", Comma, "5", Comma, "6", Comma, "7", LF, LF, Comma, Comma, Comma, Comma, Comma, Comma>>
ExampleQuoted == <<"H", LF, Quote, "1", Comma, "1", Quote, Comma, "2">>
ExampleEight  == <<"H", LF, "1", Comma, "2", Comma, "3", Comma, "4", Comma, "5", Comma, "6", Comma, "7", Comma, "8", LF, " ", "1", " ", Comma, "2">>
ExampleNul    == <<LF, NUL, LF, "1">>

CsvInputs ==
    SeqsUpTo(Bytes, MaxBytes)
        \cup {Example14, ExampleQuoted, ExampleEight, ExampleNul}

RowCaps == {1, 5}

InitCsv ==
    /\ AttachIdle
    /\ MergeIdle
    /\ GateIdle
    /\ SchedIdle
    /\ CycleIdle
    /\ sheet = <<>>
    /\ clock = 0
    /\ sec = 0
    /\ pc = "csv_call"
    /\ csv_data \in CsvInputs
    /\ max_rows \in RowCaps
    /\ decodeOutcome = "none"
    /\ csv_text = <<>>
    /\ lines = <<>>
    /\ processed_rows = <<>>
    /\ origins = <<>>
    /\ rowFailed = {}
    /\ rowCall = NoRowCall
    /\ csvResult = NoResult

otherVars ==
    <<sheet, clock, sec, mergeVars, gateVars, schedVars, cycleVars, attachVars>>

\* line 33: the bytes are decoded; a csv_data that is not bytes raises
CsvDecode ==
    /\ pc = "csv_call"
    /\ \E outcome \in {"ok", "exc"} :
          /\ decodeOutcome' = outcome
          /\ IF outcome = "ok"
             THEN /\ csv_text' = Decode(csv_data)
                  /\ pc' = "csv_clean"
                  /\ csvResult' = csvResult
             ELSE /\ csv_text' = csv_text
                  /\ pc' = "csv_done"
                  /\ csvResult' = CsvCatch(TRUE, processed_rows)
    /\ UNCHANGED <<csv_data, max_rows, lines, processed_rows, origins,
                   rowFailed, rowCall, otherVars>>

\* lines 37-38
CsvClean ==
    /\ pc = "csv_clean"
    /\ csv_text' = Clean(csv_text)
    /\ pc' = "csv_split"
    /\ UNCHANGED <<csv_data, max_rows, decodeOutcome, lines, processed_rows,
                   origins, rowFailed, rowCall, csvResult, otherVars>>

\* lines 41-53
CsvSplit ==
    /\ pc = "csv_split"
    /\ lines' = CapThenFilter(SkipHeader(Split(csv_text)), max_rows)
    /\ processed_rows' = <<>>
    /\ pc' = "csv_rows"
    /\ UNCHANGED <<csv_data, max_rows, decodeOutcome, csv_text, origins,
                   rowFailed, rowCall, csvResult, otherVars>>

\* one turn of the loop of lines 55-62
CsvRow ==
    /\ pc = "csv_rows"
    /\ lines # <<>>
    /\ \E outcome \in ReaderOutcomes(Head(lines).text) :
          LET line == Head(lines)
              done == ProcessCsvRow(line.text, outcome)
              kept == ~done.raised /\ Truthy(done.ret)
          IN  /\ rowCall' = [called |-> TRUE, line |-> line.text,
                             parsed |-> outcome = "ok",
                             raised |-> done.raised, ret |-> done.ret]
              /\ processed_rows' = IF kept THEN Append(processed_rows, done.ret)
                                   ELSE processed_rows
              /\ origins' = IF kept THEN Append(origins, line.no) ELSE origins
              /\ rowFailed' = IF done.raised THEN rowFailed \cup {line.no}
                              ELSE rowFailed
              /\ lines' = Continue(done.raised, Tail(lines))
    /\ UNCHANGED <<pc, csv_data, max_rows, decodeOutcome, csv_text, csvResult,
                   otherVars>>

\* lines 64-65
CsvReturn ==
    /\ pc = "csv_rows"
    /\ lines = <<>>
    /\ csvResult' = CsvCatch(FALSE, processed_rows)
    /\ pc' = "csv_done"
    /\ UNCHANGED <<csv_data, max_rows, decodeOutcome, csv_text, lines,
                   processed_rows, origins, rowFailed, rowCall, otherVars>>

\* _process_csv_row called on its own, as the repository's test does, with
\* the text of csv_data as the line when that text is a single line
CsvRowCall ==
    /\ pc = "csv_call"
    /\ \A k \in DOMAIN csv_data : csv_data[k] \notin {LF, CR, BadByte}
    /\ \E outcome \in ReaderOutcomes(csv_data) :
          LET done == ProcessCsvRow(csv_data, outcome)
          IN  rowCall' = [called |-> TRUE, line |-> csv_data,
                          parsed |-> outcome = "ok",
                          raised |-> done.raised, ret |-> done.ret]
    /\ pc' = "csv_done"
    /\ UNCHANGED <<csv_data, max_rows, decodeOutcome, csv_text, lines,
                   processed_rows, origins, rowFailed, csvResult, otherVars>>

NextCsv ==
    CsvDecode \/ CsvClean \/ CsvSplit \/ CsvRow \/ CsvReturn \/ CsvRowCall

SpecCsv == InitCsv /\ [][NextCsv]_vars

(***************************************************************************)
(* EmailProcessor.process_csv_attachment (email_processor.py 264-349) and  *)
(* _upload_csv_fallback (351-384): one CSV attachment is downloaded, the   *)
(* original file is uploaded to Drive, the bytes go through                *)
(* CSVProcessor.process_csv_attachment, and the records are appended to    *)
(* 'Sheet1' of the target spreadsheet, written to a new spreadsheet, or    *)
(* uploaded as a flat file.                                                *)
(***************************************************************************)
\* prepare_sheets_data: the records as rows of cells, in the order of the
\* keys of the first record
PrepareSheetsData(rows) ==
    [k \in 1..Len(rows) |->
        <<S(rows[k].LeadCreationDate), S(rows[k].InquiryDate),
          S(rows[k].CommunityName), S(rows[k].Classification),
          S(rows[k].TotalLeads), S(rows[k].SubSourceName),
          S(rows[k].SourceName)>>]

\* the fallback of lines 319-322 taken whatever append_data_to_sheet returned
NeedsFallbackAlways(success) == TRUE

\* lines 315-322: if success: ... else: self._upload_csv_fallback(...)
NeedsFallback(success) == success # "True"

\* except Exception (lines 348-349): whatever is raised inside is logged
AttachCatch(raised) == "returned"

\* attachments handed to process_csv_attachment, as the bytes their data
\* decodes to
AttachInputs ==
    {<<>>, <<"1">>, <<"H", LF>>, Example14, ExampleQuoted, ExampleEight,
     ExampleNul}

AttachSheets == {<<>>, <<HeaderRow>>}

InitAttach ==
    /\ MergeIdle
    /\ GateIdle
    /\ SchedIdle
    /\ gmail = "GmailService"
    /\ target \in BOOLEAN
    /\ inbox = <<>>
    /\ message_ids = <<>>
    /\ found = <<>>
    /\ searches = 0
    /\ fetched = <<>>
    /\ appends = <<>>
    /\ active = 0
    /\ cycleOutcome = "none"
    /\ sheet \in AttachSheets
    /\ clock = 0
    /\ sec = 0
    /\ pc = "att_call"
    /\ csv_data \in AttachInputs
    /\ max_rows \in RowCaps
    /\ decodeOutcome = "none"
    /\ csv_text = <<>>
    /\ lines = <<>>
    /\ processed_rows = <<>>
    /\ origins = <<>>
    /\ rowFailed = {}
    /\ rowCall = NoRowCall
    /\ csvResult = NoResult
    /\ create_sheets \in BOOLEAN
    /\ tempUpload = "none"
    /\ attachAppend = "none"
    /\ attachCreate = "none"
    /\ fallbacks = 0
    /\ outputUpload = "none"
    /\ attachResult = "none"

attachRest == <<clock, sec, mergeVars, gateVars, schedVars, cycleVars>>

\* lines 272-292: download_attachment gives b'' when the data does not
\* decode; drive upload_file gives an id, None on HttpError, and lets any
\* other exception through to the handler of line 348
AttachDownload ==
    /\ pc = "att_call"
    /\ \E decoded \in BOOLEAN, outcome \in Outcomes :
          LET got == IF decoded THEN csv_data ELSE <<>>
          IN  IF got = <<>>
              THEN /\ attachResult' = "returned"
                   /\ tempUpload' = tempUpload
                   /\ pc' = "att_done"
              ELSE /\ tempUpload' = outcome
                   /\ attachResult' =
                         CASE outcome = "ok"   -> attachResult
                           [] outcome = "http" -> "returned"
                           [] OTHER            -> AttachCatch(TRUE)
                   /\ pc' = IF outcome = "ok" THEN "csv_call" ELSE "att_done"
    /\ UNCHANGED <<sheet, attachRest, csvVars, create_sheets, attachAppend,
                   attachCreate, fallbacks, outputUpload>>

\* line 295 reaching csv_processor.py line 33: what download_attachment
\* returned is bytes, so that decode does not raise
AttachCsvDecode == CsvDecode /\ decodeOutcome' = "ok"

\* lines 297-346, with the list process_csv_attachment returned
AttachStore ==
    /\ pc = "csv_done"
    /\ attachResult = "none"
    /\ LET rows == csvResult.value
       IN  IF rows = <<>>
           THEN /\ attachResult' = "returned"
                /\ pc' = "att_done"
                /\ UNCHANGED <<sheet, attachAppend, attachCreate>>
           ELSE IF ~create_sheets
           THEN /\ pc' = "att_fallback"
                /\ UNCHANGED <<sheet, attachAppend, attachCreate, attachResult>>
           ELSE IF target
           THEN \E outcome \in Outcomes :
                   LET done == AppendDataToSheet(sheet, PrepareSheetsData(rows),
                                                 outcome)
                   IN  /\ attachAppend' = done.ret
                       /\ sheet' = done.sheet
                       /\ attachCreate' = attachCreate
                       /\ IF done.ret = "Raise"
                          THEN /\ attachResult' = AttachCatch(TRUE)
                               /\ pc' = "att_done"
                          ELSE IF NeedsFallback(done.ret)
                          THEN /\ attachResult' = attachResult
                               /\ pc' = "att_fallback"
                          ELSE /\ attachResult' = AttachCatch(FALSE)
                               /\ pc' = "att_done"
           ELSE \E outcome \in Outcomes :
                   /\ attachCreate' = IF outcome = "ok" THEN "info" ELSE "None"
                   /\ attachResult' = IF outcome = "ok" THEN AttachCatch(FALSE)
                                      ELSE attachResult
                   /\ pc' = IF outcome = "ok" THEN "att_done" ELSE "att_fallback"
                   /\ UNCHANGED <<sheet, attachAppend>>
    /\ UNCHANGED <<attachRest, csvVars, create_sheets, tempUpload, fallbacks,
                   outputUpload>>

\* _upload_csv_fallback (lines 351-384): the output file is uploaded;
\* whatever is raised inside is caught at line 383
AttachFallback ==
    /\ pc = "att_fallback"
    /\ fallbacks' = fallbacks + 1
    /\ \E outcome \in Outcomes : outputUpload' = outcome
    /\ attachResult' = AttachCatch(FALSE)
    /\ pc' = "att_done"
    /\ UNCHANGED <<sheet, attachRest, csvVars, create_sheets, tempUpload,
                   attachAppend, attachCreate>>

NextAttach ==
    \/ AttachDownload
    \/ AttachCsvDecode
    \/ CsvClean
    \/ CsvSplit
    \/ CsvRow
    \/ CsvReturn
    \/ AttachStore
    \/ AttachFallback

SpecAttach == InitAttach /\ [][NextAttach]_vars

(***************************************************************************)
(* Claims about append_data_without_duplicates and append_data_to_sheet,   *)
(* checked under SpecMerge.                                                *)
(***************************************************************************)

\* C2 (as claimed): a run that follows a successful run with the same batch
\* and key columns, both fetches and appends succeeding and nobody else
\* writing, leaves the destination as the first run left it.
C2_MergeIdempotent ==
    (/\ pc = "done"
     /\ prev.ok
     /\ fetchOutcome = "ok"
     /\ result = "True"
     /\ sheetBefore = prev.after)
    => sheet = sheetBefore

\* C3: the rows handed to the append operation have pairwise distinct keys,
\* none of them has a key of the set built from the existing rows, and one
\* row per novel key of the batch survives (a row repeating the key of an
\* earlier batch row is discarded).
C3_AppendedKeysDistinct ==
    (pc = "done" /\ fetchOutcome # "exc") =>
        LET uc == EffectiveColumns(unique_columns)
        IN  /\ \A m, n \in DOMAIN new_data :
                   m < n => Key(new_data[m], uc) # Key(new_data[n], uc)
            /\ \A m \in DOMAIN new_data : Key(new_data[m], uc) \notin existing_keys
            /\ Len(new_data) =
                   Cardinality({Key(data[m], uc) : m \in DOMAIN data} \ existing_keys)

C3_Witness ==
    /\ pc = "done"
    /\ appendCalled
    /\ existing_keys # {}
    /\ Len(new_data) < Len(data)
    /\ \E m, n \in DOMAIN data :
          /\ m < n
          /\ Key(data[m], EffectiveColumns(unique_columns))
                 = Key(data[n], EffectiveColumns(unique_columns))
          /\ Key(data[m], EffectiveColumns(unique_columns)) \notin existing_keys

\* C4: destination [["LeadID","Name"],["1","A"]], batch [["1","A"],["2","B"]],
\* key columns [0]: exactly the row ["2","B"] is handed to the append
\* operation, and when that request succeeds the merge returns True with
\* the row after the two old ones.
C4_Example ==
    (/\ pc = "done"
     /\ sheetBefore = <<HeaderRow, Row1A>>
     /\ data = <<Row1A, Row2B>>
     /\ unique_columns = <<0>>
     /\ fetchOutcome = "ok")
    => /\ appendCalled
       /\ new_data = <<Row2B>>
       /\ appendOutcome = "ok" =>
             (result = "True" /\ sheet = <<HeaderRow, Row1A, Row2B>>)

C4_Witness ==
    /\ pc = "done"
    /\ sheetBefore = <<HeaderRow, Row1A>>
    /\ data = <<Row1A, Row2B>>
    /\ unique_columns = <<0>>
    /\ fetchOutcome = "ok"
    /\ appendOutcome = "ok"
    /\ result = "True"
    /\ sheet = <<HeaderRow, Row1A, Row2B>>

\* C5: when a call has finished, with success or with failure, the rows the
\* destination held at the call are a prefix of its content.
C5_AppendOnly == pc = "done" => IsPrefix(sheetBefore, sheet)

C5_Witness ==
    /\ pc = "done"
    /\ sheetBefore # <<>>
    /\ appendCalled
    /\ appendOutcome = "ok"
    /\ Len(sheet) > Len(sheetBefore)

\* C6 (as claimed): when fetching the existing content fails, the merge
\* returns False and appends nothing.
C6_FetchFailureReported ==
    (pc = "done" /\ fetchOutcome \in {"http", "exc"})
    => (result = "False" /\ ~appendCalled /\ sheet = sheetBefore)

\* C7: the merge never raises; every failure of the append operation gives
\* False; True is returned only when no row survived or the append succeeded.
C7_NeverRaises ==
    pc = "done" =>
        /\ result \in {"True", "False"}
        /\ (appendCalled /\ appendOutcome # "ok") => result = "False"
        /\ result = "True" =>
              (new_data = <<>> \/ (appendCalled /\ appendOutcome = "ok"))

C7_Witness ==
    /\ pc = "done"
    /\ appendCalled
    /\ appendOutcome = "exc"
    /\ result = "False"

\* the header test as C19 words it: only the cells at the key column
\* positions of the first row are looked at
HeaderByKeyColumns(existing, uc) ==
    /\ Len(existing) > 1
    /\ \E k \in DOMAIN uc :
          /\ uc[k] < Len(existing[1])
          /\ \/ Contains(<<"l", "e", "a", "d">>, Lower(Str(existing[1][uc[k] + 1])))
             \/ Contains(<<"i", "d">>, Lower(Str(existing[1][uc[k] + 1])))

\* C19 (as claimed): the first existing row is left out of key extraction
\* exactly when the destination has more than one row and a cell at a key
\* column position of that row contains "lead" or "id"; the key set built
\* from a fetched destination is the one this rule gives.
C19_HeaderOnlyKeyColumns ==
    (pc = "filter" /\ fetchOutcome = "ok") =>
        LET uc == EffectiveColumns(unique_columns)
        IN  existing_keys =
                {Key(existing_data[r], uc) :
                    r \in {q \in DOMAIN existing_data :
                              /\ ~(q = 1 /\ HeaderByKeyColumns(existing_data, uc))
                              /\ Len(existing_data[q]) > MaxColumn(uc)
                              /\ KeptKey(Key(existing_data[q], uc))}}

\* C20 (as claimed): no key of the set built from the existing rows has
\* only empty strings as components, whatever the number of key columns.
C20_NoAllEmptyKey ==
    pc = "filter" =>
        \A key \in existing_keys : \E k \in DOMAIN key : key[k] # E


(***************************************************************************)
(* Claims about the schedule gate, checked under SpecGate.                 *)
(***************************************************************************)

\* C8: is_target_tuesday accepts a date exactly when it is the reference
\* Tuesday plus or minus an even number of weeks; the reference Tuesday
\* plus or minus an odd number of weeks, and every non-Tuesday, is rejected.
C8_TargetTuesday ==
    tuesdayCall.called =>
        LET d == tuesdayCall.at
        IN  /\ tuesdayCall.ret = (\E k \in (-MaxWeeks)..MaxWeeks : d = 14 * k)
            /\ \A k \in (-MaxWeeks)..MaxWeeks : d = 14 * k + 7 => ~tuesdayCall.ret
            /\ d % 7 # 0 => ~tuesdayCall.ret

C8_Witness ==
    /\ tuesdayCall.called
    /\ tuesdayCall.at = -14
    /\ tuesdayCall.ret

\* C9: should_check_emails returns true exactly when the day is an on-week
\* Tuesday and the time is 11:20 or 12:00.
C9_GateWindows ==
    gateCall.called =>
        gateCall.ret =
            (/\ \E k \in (-MaxWeeks)..MaxWeeks : DateOf(gateCall.at) = 14 * k
             /\ gateCall.at % (24 * 60) \in {11 * 60 + 20, 12 * 60})

C9_Witness ==
    /\ gateCall.called
    /\ gateCall.ret
    /\ gateCall.at = 14 * 24 * 60 + 12 * 60

(***************************************************************************)
(* Claims about the scheduled pipeline, checked under Spec.                *)
(***************************************************************************)

\* what the mail delivered for a data row: every cell but the timestamp of
\* the processing
Delivered(row) == SubSeq(row, 2, Len(row))

\* C1 (as claimed): the destination never holds two rows for the same
\* delivery; a message found again in a later cycle is not appended again.
C1_NoRowTwice ==
    \A m, n \in DOMAIN sheet : m < n => Delivered(sheet[m]) # Delivered(sheet[n])

\* C10 (as claimed): whenever the scheduler loop runs process_emails for one
\* of the two jobs on an on-week Tuesday, the gate evaluated inside is open.
C10_FiredGateOpen ==
    (/\ gateCall.called
     /\ gateCall.job \in {1, 2}
     /\ IsTargetTuesday(DateOf(gateCall.at)))
    => gateCall.ret

C17_NoOverlap ==
    /\ active \in {0, 1}
    /\ pc \in {"call", "pending", "start"} => active = 0
    /\ pc = "emails" => active = 1

C17_Witness ==
    /\ pc = "call"
    /\ cycleJob = 2
    /\ gateCall.called
    /\ gateCall.ret
    /\ clock % MinutesPerDay > SecondCheckHour * 60 + SecondCheckMinute
    /\ active = 0

\* a finished invocation of process_emails that found the gate open, with a
\* target spreadsheet configured
CycleDone == pc = "pending" /\ gateCall.called /\ gateCall.ret /\ target

\* the 5-cell row [timestamp, sender, subject, first 1000 characters of the
\* body, 'Processed'] for the message m
RowAsClaimed(row, m) ==
    /\ Len(row) = 5
    /\ Len(row[1].text) = 19
    /\ row[2].text = m.from
    /\ row[3].text = m.subject
    /\ row[4].text = [k \in 1..(IF Len(m.body) < 1000 THEN Len(m.body) ELSE 1000)
                          |-> m.body[k]]
    /\ row[5].text = Processed

\* one search, one fetch per id found, and one append of one row to
\* 'Sheet1' per fetched message whose body has content
CycleAsClaimed(HasContent(_)) ==
    LET body(f) == GetBody(GetMessage(gmail, f.id))
        want    == SelectSeq(fetched, LAMBDA f : f.ok /\ HasContent(body(f)))
    IN  /\ searches = 1
        /\ Len(fetched) = Len(found)
        /\ \A k \in DOMAIN fetched : fetched[k].id = found[k]
        /\ Len(appends) = Len(want)
        /\ \A k \in DOMAIN appends :
              /\ appends[k].id = want[k].id
              /\ appends[k].sheet_name = <<"S", "h", "e", "e", "t", "1">>
              /\ Len(appends[k].values) = 1
              /\ RowAsClaimed(appends[k].values[1],
                              GetMessage(gmail, appends[k].id))

NonEmpty(b) == b # <<>>
NonBlank(b) == \E k \in DOMAIN b : b[k] \notin {" ", "\t", "\n"}

\* C18 (as claimed): in a cycle with the gate open and a target configured
\* there is one search, one fetch per id, and one append of one 5-cell row
\* to 'Sheet1' for each fetched message with a non-empty body.
C18_AppendPerNonEmptyBody == CycleDone => CycleAsClaimed(NonEmpty)

\* C18 (amended): ... one append for each fetched message whose body is not
\* empty after stripping whitespace.
C18_AppendPerNonBlankBody == CycleDone => CycleAsClaimed(NonBlank)

C18_Witness ==
    /\ CycleDone
    /\ Len(found) = 2
    /\ Len(appends) = 2
    /\ \E k \in DOMAIN appends : Len(appends[k].values[1][4].text) = BodyLimit

(***************************************************************************)
(* Claims about the CSV processor, checked under SpecCsv.                  *)
(***************************************************************************)
FieldNames ==
    <<"LeadCreationDate", "InquiryDate", "CommunityName", "Classification",
      "TotalLeads", "SubSourceName", "SourceName">>

\* the characters of the texts of the model
Chars == (Bytes \ {BadByte}) \cup {"H"} \cup {Digit(k) : k \in 0..9}

Count(s, ch) == Cardinality({k \in DOMAIN s : s[k] = ch})

\* C12: for a line the csv reader parses, _process_csv_row returns a record
\* with exactly the 7 keys, each a string; when the line has fewer than 7
\* comma-separated fields the fields past the last one are empty strings.
C12_SevenKeys ==
    (rowCall.called /\ rowCall.parsed) =>
        /\ ~rowCall.raised
        /\ DOMAIN rowCall.ret = {FieldNames[k] : k \in 1..7}
        /\ \A k \in 1..7 : rowCall.ret[FieldNames[k]] \in Seq(Chars)
        /\ Count(rowCall.line, Quote) = 0 =>
              \A k \in 1..7 :
                 k > Count(rowCall.line, Comma) + 1 =>
                    rowCall.ret[FieldNames[k]] = <<>>

C12_Witness ==
    /\ rowCall.called
    /\ rowCall.parsed
    /\ rowCall.line = <<"1", Comma, "1">>
    /\ rowCall.ret.InquiryDate = <<"1">>
    /\ rowCall.ret.SourceName = <<>>

\* C13: the first line of the text is dropped exactly when the text has
\* more than one line, whatever it holds: no record comes from it, the
\* records come from the following lines in their order, and the line of a
\* one-line text is processed as data.
C13_HeaderDropped ==
    (pc = "csv_done" /\ decodeOutcome = "ok") =>
        LET all   == Split(csv_text)
            multi == Count(csv_text, LF) > 0
            first == IF multi THEN 2 ELSE 1
            good(no) == /\ Strip(all[no].text) # <<>>
                        /\ no \notin rowFailed
        IN  /\ Len(csvResult.value) = Len(origins)
            /\ \A k \in DOMAIN origins :
                  /\ origins[k] \in first..Len(all)
                  /\ csvResult.value[k] =
                        ProcessCsvRow(Strip(all[origins[k]].text), "ok").ret
            /\ \A j, k \in DOMAIN origins : j < k => origins[j] < origins[k]
            /\ (first <= Len(all) /\ good(first)) =>
                  (origins # <<>> /\ origins[1] = first)

C13_Witness ==
    /\ pc = "csv_done"
    /\ csv_text = <<"1", LF, "1">>
    /\ origins = <<2>>
    /\ Len(csvResult.value) = 1

\* C14 (as claimed): for the text "H1,H2", "1,2,3,4,5,6,7", "", ",,,,,,"
\* and the cap 5 the result is exactly one record, with the fields 1 to 7.
C14_ExampleOneRecord ==
    (/\ pc = "csv_done"
     /\ decodeOutcome = "ok"
     /\ csv_data = Example14
     /\ max_rows = 5) =>
        /\ Len(csvResult.value) = 1
        /\ \A k \in 1..7 : csvResult.value[1][FieldNames[k]] = <<Digit(k)>>

\* C15 (as claimed): the caller gets, with the records, the number of rows
\* skipped because they failed: the non-blank lines within the cap minus
\* the records returned.
C15_SkippedCountReturned ==
    (pc = "csv_done" /\ decodeOutcome = "ok") =>
        /\ csvResult.type = "pair"
        /\ csvResult.skipped =
              Len(FilterBlank(Take(SkipHeader(Split(csv_text)), max_rows)))
                  - Len(csvResult.value)

\* C16: process_csv_attachment never raises: it returns a list, the empty
\* one when decoding failed and when the text holds no line with content.
C16_CsvNeverRaises ==
    (pc = "csv_done" /\ decodeOutcome # "none") =>
        /\ csvResult.type = "list"
        /\ decodeOutcome = "exc" => csvResult.value = <<>>
        /\ (\A k \in DOMAIN csv_text : csv_text[k] \in {" ", LF}) =>
              csvResult.value = <<>>

C16_Witness ==
    /\ pc = "csv_done"
    /\ decodeOutcome = "exc"
    /\ csv_data = Example14
    /\ csvResult = [type |-> "list", value |-> <<>>]

(***************************************************************************)
(* Further claims about append_data_without_duplicates, checked under      *)
(* SpecMerge and, with another writer of the sheet, under SpecRace.        *)
(***************************************************************************)
Texts(row) == [k \in DOMAIN row |-> row[k].text]

\* C21 (as claimed): a new row that is cell for cell equal to an existing
\* row, other than a first row left out as header, is never handed to the
\* append, however short the row and whatever its key cells hold.
C21_EqualRowDiscarded ==
    (pc = "done" /\ fetchOutcome = "ok") =>
        LET uc == EffectiveColumns(unique_columns)
        IN  \A k \in DOMAIN data :
               (\E r \in DOMAIN existing_data :
                   /\ ~SkippedAsHeader(existing_data, r, uc)
                   /\ Texts(existing_data[r]) = Texts(data[k]))
               => \A n \in DOMAIN new_data : new_data[n] # data[k]

RECURSIVE IsSubsequence(_, _)
IsSubsequence(a, b) ==
    IF a = <<>> THEN TRUE
    ELSE IF b = <<>> THEN FALSE
    ELSE IF Head(a) = Head(b) THEN IsSubsequence(Tail(a), Tail(b))
    ELSE IsSubsequence(a, Tail(b))

\* C22: the rows handed to the append are input rows, unmodified and in
\* their order, and a successful append puts them, in one block, after the
\* rows the destination held.
C22_SubsequenceAppended ==
    pc = "done" =>
        /\ IsSubsequence(new_data, data)
        /\ (appendCalled /\ appendOutcome = "ok") =>
              sheet = sheetBefore \o new_data
        /\ ~(appendCalled /\ appendOutcome = "ok") => sheet = sheetBefore

C22_Witness ==
    /\ pc = "done"
    /\ appendCalled
    /\ appendOutcome = "ok"
    /\ Len(data) = 2
    /\ Len(new_data) = 2
    /\ new_data[1] # new_data[2]
    /\ sheetBefore # <<>>

\* C23: when the filter leaves no row, an empty batch included, the merge
\* returns True, the append operation is not called and the destination is
\* as it was.
C23_NothingNewIsSuccess ==
    (pc = "done" /\ fetchOutcome \in {"ok", "http"} /\ new_data = <<>>) =>
        /\ result = "True"
        /\ ~appendCalled
        /\ appendOutcome = "none"
        /\ sheet = sheetBefore

C23_Witness ==
    /\ pc = "done"
    /\ fetchOutcome = "ok"
    /\ Len(data) = 2
    /\ new_data = <<>>
    /\ result = "True"

\* the rows another writer appended during the running merge
Foreign ==
    SubSeq(sheet, Len(sheetBefore) + 1,
           Len(sheet) - (IF appendCalled /\ appendOutcome = "ok"
                         THEN Len(new_data) ELSE 0))

\* C27: a row another writer appends between the fetch and the append does
\* not stop the merge from appending a batch row with the same key: after
\* the append the destination holds two rows with that key.
C27_RaceKeepsDuplicate ==
    (pc = "done" /\ fetchOutcome = "ok") =>
        LET uc == EffectiveColumns(unique_columns)
        IN  \A e \in DOMAIN Foreign, k \in DOMAIN data :
               (/\ Key(Foreign[e], uc) = Key(data[k], uc)
                /\ Key(data[k], uc) \notin existing_keys)
               => /\ \E n \in DOMAIN new_data :
                        Key(new_data[n], uc) = Key(data[k], uc)
                  /\ appendCalled
                  /\ appendOutcome = "ok" =>
                        \E m, n \in DOMAIN sheet :
                           /\ m < n
                           /\ Key(sheet[m], uc) = Key(data[k], uc)
                           /\ Key(sheet[n], uc) = Key(data[k], uc)

C27_Witness ==
    /\ pc = "done"
    /\ fetchOutcome = "ok"
    /\ appendOutcome = "ok"
    /\ unique_columns = <<0>>
    /\ Foreign = <<Row1A>>
    /\ new_data = <<Row1A>>
    /\ sheet = sheetBefore \o <<Row1A, Row1A>>

(***************************************************************************)
(* Further claims about the CSV processor, checked under SpecCsv.          *)
(***************************************************************************)

\* position of the first line after the header, and of the last line the
\* cap lets through
FirstData == IF Count(csv_text, LF) > 0 THEN 2 ELSE 1
LastData  == FirstData + max_rows - 1

\* C24: the cap is applied after the header is dropped and before blank
\* lines are removed: never more than N records, each from one of the first
\* N lines after the header, blank lines counted.
C24_CapBeforeBlank ==
    (pc = "csv_done" /\ decodeOutcome = "ok") =>
        /\ Len(csvResult.value) <= max_rows
        /\ Len(csvResult.value) = Len(origins)
        /\ \A k \in DOMAIN origins : origins[k] \in FirstData..LastData

C24_Witness ==
    /\ pc = "csv_done"
    /\ csv_text = <<LF, LF, "1">>
    /\ max_rows = 1
    /\ csvResult = [type |-> "list", value |-> <<>>]

\* C25: a line whose normalizing fails gives no record, and every other
\* non-blank line within the cap gives its record, in line order.
C25_RowFaultIsolated ==
    (pc = "csv_done" /\ decodeOutcome = "ok") =>
        LET all    == Split(csv_text)
            window == {n \in FirstData..LastData :
                         n <= Len(all) /\ Strip(all[n].text) # <<>>}
        IN  /\ rowFailed \subseteq window
            /\ {origins[k] : k \in DOMAIN origins} = window \ rowFailed
            /\ \A j, k \in DOMAIN origins : j < k => origins[j] < origins[k]
            /\ csvResult.type = "list"
            /\ Len(csvResult.value) = Cardinality(window \ rowFailed)

C25_Witness ==
    /\ pc = "csv_done"
    /\ csv_data = ExampleNul
    /\ rowFailed = {2}
    /\ origins = <<3>>
    /\ Len(csvResult.value) = 1

\* the text between the commas of a line without quotes
RECURSIVE CommaSplit(_, _)
CommaSplit(s, cur) ==
    IF s = <<>> THEN <<cur>>
    ELSE IF Head(s) = Comma THEN <<cur>> \o CommaSplit(Tail(s), <<>>)
    ELSE CommaSplit(Tail(s), Append(cur, Head(s)))

\* a text without its leading and trailing whitespace
Trim(s) ==
    LET inked == {k \in DOMAIN s : s[k] \notin {" ", "\t", "\n"}}
    IN  IF inked = {} THEN <<>>
        ELSE SubSeq(s, CHOOSE a \in inked : \A k \in inked : a <= k,
                       CHOOSE z \in inked : \A k \in inked : z >= k)

\* C26: output field i is the i-th parsed field without its leading and
\* trailing whitespace, fields past the seventh are ignored, and a comma
\* inside a quoted field does not split it.
C26_ByPosition ==
    (rowCall.called /\ rowCall.parsed) =>
        /\ ~rowCall.raised
        /\ Count(rowCall.line, Quote) = 0 =>
              LET pieces == CommaSplit(rowCall.line, <<>>)
              IN  \A k \in 1..7 :
                     rowCall.ret[FieldNames[k]] =
                        IF k <= Len(pieces) THEN Trim(pieces[k]) ELSE <<>>
        /\ rowCall.line = <<Quote, "1", Comma, "1", Quote, Comma, "2">> =>
              /\ rowCall.ret.LeadCreationDate = <<"1", Comma, "1">>
              /\ rowCall.ret.InquiryDate = <<"2">>
              /\ rowCall.ret.CommunityName = <<>>

C26_Witness ==
    /\ rowCall.called
    /\ rowCall.parsed
    /\ Len(CommaSplit(rowCall.line, <<>>)) = 8
    /\ rowCall.ret.SourceName = <<"7">>

(***************************************************************************)
(* Further claims about the processing cycle, checked under Spec.          *)
(***************************************************************************)

\* C29 (as claimed): a message fetched from GmailService carries its body:
\* when the gate is open and a target is configured, a fetched message
\* whose body in the mailbox is not empty reaches the append.
C29_BodyReachesAppend ==
    (CycleDone /\ gmail = "GmailService") =>
        \A k \in DOMAIN fetched :
           (fetched[k].ok /\ NonBlank(Mailbox[fetched[k].id].body)) =>
              \E a \in DOMAIN appends : appends[a].id = fetched[k].id

\* C30: a message whose fetch or processing fails does not keep the later
\* ids of the same search from being processed, in search order, and
\* process_emails returns without raising.
C30_MessageFaultIsolated ==
    /\ cycleOutcome # "raised"
    /\ pc = "emails" =>
          /\ cycleOutcome = "running"
          /\ [k \in DOMAIN fetched |-> fetched[k].id] \o message_ids = found
    /\ (pc = "pending" /\ gateCall.called /\ gateCall.ret) =>
          /\ cycleOutcome = "returned"
          /\ [k \in DOMAIN fetched |-> fetched[k].id] = found
          /\ \A k \in DOMAIN fetched :
                (/\ fetched[k].ok
                 /\ target
                 /\ NonBlank(GetBody(GetMessage(gmail, fetched[k].id))))
                => \E a \in DOMAIN appends : appends[a].id = fetched[k].id

C30_Witness ==
    /\ CycleDone
    /\ Len(found) = 2
    /\ ~fetched[1].ok
    /\ Len(appends) = 1
    /\ appends[1].id = found[2]
    /\ cycleOutcome = "returned"

\* C28: in process_csv_attachment with sheets enabled and a target
\* spreadsheet configured, once the append to the target has been made and
\* the call is over, _upload_csv_fallback has been invoked exactly once
\* when the append reported failure and not at all when it reported
\* success, and the call has not raised
C28_FallbackOnFailure ==
    (pc = "att_done" /\ create_sheets /\ target /\ attachAppend # "none")
        => /\ attachAppend = "False" => fallbacks = 1
           /\ attachAppend = "True" => fallbacks = 0
           /\ attachResult = "returned"

C28_Witness ==
    /\ pc = "att_done"
    /\ create_sheets
    /\ target
    /\ attachAppend = "False"
    /\ fallbacks = 1
    /\ attachResult = "returned"

====
